---- MODULE Spec2Model ----
(***************************************************************************)
(* Pixel formats of the pix crate (src/src/el.rs): the Pixel trait, the    *)
(* Pix1..Pix4 containers, format conversion and Porter-Duff compositing.   *)
(* A pixel is the sequence of its channels; its format (arity, color       *)
(* model, alpha mode, gamma mode, channel depth) is the type the Rust code *)
(* carries statically.  Channel positions are 0-based as in the source;    *)
(* channel i of pixel p is p[i + 1].                                       *)
(*                                                                         *)
(* The chan, ops, gamma, rgb, gray and matte modules are collaborators of  *)
(* el.rs.  Their operators below follow the capability contract and are    *)
(* pinned by the reference values of the tests in el.rs (lines 714-823).   *)
(* Arithmetic on channels (multiplication, division, gamma curves) is      *)
(* modelled for 8-bit channels; 16-bit channels take part in precision     *)
(* conversion only.                                                        *)
(***************************************************************************)
EXTENDS Integers, Sequences, FiniteSets, TLC

VARIABLES op, fmt, sfmt, dst0, dst, src, clr, pd, arg, arg0, ret, fatal

vars == <<op, fmt, sfmt, dst0, dst, src, clr, pd, arg, arg0, ret, fatal>>

\* Longest pixel slice handed to a slice operation.
MaxLen == 2

Min(a, b) == IF a < b THEN a ELSE b

----------------------------------------------------------------------------
(* Channel capability (crate::chan)                                        *)

\* Channel::MAX of the channel type with the given bit depth.
ChanMAX(b) == IF b = 8 THEN 255 ELSE 65535

\* Saturating addition and subtraction of channels.
ChanAdd(b, x, y) == Min(ChanMAX(b), x + y)

ChanSub(b, x, y) == IF x > y THEN x - y ELSE 0

\* (x << 4) | (x >> 4): an 8-bit value widened to 12 bits.
Widen12(x) == x * 16 + x \div 16

\* Ch8 multiplication: the 24-bit product of the widened operands, >> 16.
ChanMul(x, y) == (Widen12(x) * Widen12(y)) \div 65536

\* Ch8 division: (x << 8) / y, saturating at MAX; zero for a zero divisor.
ChanDiv(x, y) == IF y > 0 THEN Min(255, (x * 256) \div y) ELSE 0

\* From<Ch(sb)> for Ch(db): widening replicates the byte, narrowing keeps
\* the high byte.
ChanFrom(sb, db, x) ==
  IF sb = db THEN x
  ELSE IF sb = 8 THEN x * 256 + x
  ELSE x \div 256

----------------------------------------------------------------------------
(* Alpha-mode and gamma-mode capabilities (crate::chan)                    *)

\* Alpha::encode: straight value to the representation of mode a.
AlphaEncode(a, c, al) == IF a = "Premultiplied" THEN ChanMul(c, al) ELSE c

\* Alpha::decode: representation of mode a to the straight value.
AlphaDecode(a, c, al) == IF a = "Premultiplied" THEN ChanDiv(c, al) ELSE c

\* sRGB transfer curve, linear to encoded, for each 8-bit value.
ENCODE_SRGB_U8 ==
  <<0, 13, 22, 28, 34, 38, 42, 46, 50, 53, 56, 59, 61, 64, 66, 69,
    71, 73, 75, 77, 79, 81, 83, 85, 86, 88, 90, 92, 93, 95, 96, 98,
    99, 101, 102, 104, 105, 106, 108, 109, 110, 112, 113, 114, 115, 117, 118, 119,
    120, 121, 122, 124, 125, 126, 127, 128, 129, 130, 131, 132, 133, 134, 135, 136,
    137, 138, 139, 140, 141, 142, 143, 144, 145, 146, 147, 148, 148, 149, 150, 151,
    152, 153, 154, 155, 155, 156, 157, 158, 159, 159, 160, 161, 162, 163, 163, 164,
    165, 166, 167, 167, 168, 169, 170, 170, 171, 172, 173, 173, 174, 175, 175, 176,
    177, 178, 178, 179, 180, 180, 181, 182, 182, 183, 184, 185, 185, 186, 187, 187,
    188, 189, 189, 190, 190, 191, 192, 192, 193, 194, 194, 195, 196, 196, 197, 197,
    198, 199, 199, 200, 200, 201, 202, 202, 203, 203, 204, 205, 205, 206, 206, 207,
    208, 208, 209, 209, 210, 210, 211, 212, 212, 213, 213, 214, 214, 215, 215, 216,
    216, 217, 218, 218, 219, 219, 220, 220, 221, 221, 222, 222, 223, 223, 224, 224,
    225, 226, 226, 227, 227, 228, 228, 229, 229, 230, 230, 231, 231, 232, 232, 233,
    233, 234, 234, 235, 235, 236, 236, 237, 237, 238, 238, 238, 239, 239, 240, 240,
    241, 241, 242, 242, 243, 243, 244, 244, 245, 245, 246, 246, 246, 247, 247, 248,
    248, 249, 249, 250, 250, 251, 251, 251, 252, 252, 253, 253, 254, 254, 255, 255>>

\* sRGB transfer curve, encoded to linear, for each 8-bit value.
DECODE_SRGB_U8 ==
  <<0, 0, 0, 0, 0, 0, 0, 1, 1, 1, 1, 1, 1, 1, 1, 1,
    1, 1, 2, 2, 2, 2, 2, 2, 2, 2, 3, 3, 3, 3, 3, 3,
    4, 4, 4, 4, 4, 5, 5, 5, 5, 6, 6, 6, 6, 7, 7, 7,
    8, 8, 8, 8, 9, 9, 9, 10, 10, 10, 11, 11, 12, 12, 12, 13,
    13, 13, 14, 14, 15, 15, 16, 16, 17, 17, 17, 18, 18, 19, 19, 20,
    20, 21, 22, 22, 23, 23, 24, 24, 25, 25, 26, 27, 27, 28, 29, 29,
    30, 30, 31, 32, 32, 33, 34, 35, 35, 36, 37, 37, 38, 39, 40, 41,
    41, 42, 43, 44, 45, 45, 46, 47, 48, 49, 50, 51, 51, 52, 53, 54,
    55, 56, 57, 58, 59, 60, 61, 62, 63, 64, 65, 66, 67, 68, 69, 70,
    71, 72, 73, 74, 76, 77, 78, 79, 80, 81, 82, 84, 85, 86, 87, 88,
    90, 91, 92, 93, 95, 96, 97, 99, 100, 101, 103, 104, 105, 107, 108, 109,
    111, 112, 114, 115, 116, 118, 119, 121, 122, 124, 125, 127, 128, 130, 131, 133,
    134, 136, 138, 139, 141, 142, 144, 146, 147, 149, 151, 152, 154, 156, 157, 159,
    161, 163, 164, 166, 168, 170, 171, 173, 175, 177, 179, 181, 183, 184, 186, 188,
    190, 192, 194, 196, 198, 200, 202, 204, 206, 208, 210, 212, 214, 216, 218, 220,
    222, 224, 226, 229, 231, 233, 235, 237, 239, 242, 244, 246, 248, 250, 253, 255>>

\* Gamma::to_linear and Gamma::from_linear on an 8-bit channel.
to_linear(g, c) == IF g = "Srgb" THEN DECODE_SRGB_U8[c + 1] ELSE c

from_linear(g, c) == IF g = "Srgb" THEN ENCODE_SRGB_U8[c + 1] ELSE c

----------------------------------------------------------------------------
(* Color-model capability (crate::ColorModel, rgb, gray, matte)            *)

\* ColorModel::ALPHA: position of the alpha channel.
ALPHA(m) == CASE m = "Rgb" -> 3 [] m = "Gray" -> 1 [] m = "Matte" -> 0

\* ColorModel::LINEAR: positions of the channels subject to gamma and
\* alpha-mode transformation.
LINEAR(m) == CASE m = "Rgb" -> 0..2 [] m = "Gray" -> 0..0 [] m = "Matte" -> {}

----------------------------------------------------------------------------
(* Porter-Duff operators (crate::ops)                                      *)

PorterDuff ==
  {"Clear", "Src", "Dest", "SrcOver", "DestOver", "SrcOut", "DestOut",
   "SrcIn", "DestIn", "SrcAtop", "DestAtop", "Xor"}

\* PorterDuff::composite: the new destination channel from the destination
\* and source channels and the two coverage complements.
composite(o, d, da1, s, sa1) ==
  CASE o = "Clear"    -> 0
    [] o = "Src"      -> s
    [] o = "Dest"     -> d
    [] o = "SrcOver"  -> ChanAdd(8, s, ChanMul(d, sa1))
    [] o = "DestOver" -> ChanAdd(8, ChanMul(s, da1), d)
    [] o = "SrcOut"   -> ChanMul(s, da1)
    [] o = "DestOut"  -> ChanMul(d, sa1)
    [] o = "SrcIn"    -> ChanMul(s, ChanSub(8, 255, da1))
    [] o = "DestIn"   -> ChanMul(d, ChanSub(8, 255, sa1))
    [] o = "SrcAtop"  -> ChanAdd(8, ChanMul(s, ChanSub(8, 255, da1)),
                                    ChanMul(d, sa1))
    [] o = "DestAtop" -> ChanAdd(8, ChanMul(s, da1),
                                    ChanMul(d, ChanSub(8, 255, sa1)))
    [] o = "Xor"      -> ChanAdd(8, ChanMul(s, da1), ChanMul(d, sa1))

----------------------------------------------------------------------------
(* Pixel trait and the Pix1..Pix4 containers                               *)

NoFatal == "none"
NoAlphaChannel == "unwrap on None"
InvalidConversion == "Invalid pixel conversion"
OutOfBounds == "index out of bounds"

\* A pixel type: Pix<arity><Ch<depth>, model, alpha, gamma>.
Format(n, m, a, g, b) ==
  [arity |-> n, model |-> m, alpha |-> a, gamma |-> g, depth |-> b]

\* channels().get(i) falling back to the default channel value, 0.
get_or_default(f, p, i) == IF i < Len(p) THEN p[i + 1] ELSE 0

\* channels().get(i).unwrap_or(&MAX)
get(f, p, i) == IF i < Len(p) THEN p[i + 1] ELSE ChanMAX(f.depth)

one(f, p) == get(f, p, 0)

two(f, p) == get(f, p, 1)

three(f, p) == get(f, p, 2)

four(f, p) == get(f, p, 3)

alpha(f, p) == get(f, p, ALPHA(f.model))

\* alpha_mut: the position it borrows, or the fatal error of unwrap().
alpha_mut(f, p) ==
  IF ALPHA(f.model) < Len(p)
    THEN [idx |-> ALPHA(f.model) + 1, fatal |-> NoFatal]
    ELSE [idx |-> 0, fatal |-> NoAlphaChannel]

\* PixN::from_channels: reads ch[0] .. ch[N-1].
from_channels(f, ch) ==
  IF Len(ch) < f.arity
    THEN [val |-> <<>>, fatal |-> OutOfBounds]
    ELSE [val |-> SubSeq(ch, 1, f.arity), fatal |-> NoFatal]

\* from_bit_depth reading each channel one position too far.
from_bit_depth_shifted(D, S, p) ==
  IF D.model # S.model
    THEN [val |-> <<>>, fatal |-> InvalidConversion]
    ELSE [val |-> [i \in 1..D.arity |->
                     ChanFrom(S.depth, D.depth, get(S, p, i))],
          fatal |-> NoFatal]

\* PixN::from_bit_depth: D from pixel p of type S.
from_bit_depth(D, S, p) ==
  IF D.model # S.model
    THEN [val |-> <<>>, fatal |-> InvalidConversion]
    ELSE [val |-> [i \in 1..D.arity |->
                     ChanFrom(S.depth, D.depth, get(S, p, i - 1))],
          fatal |-> NoFatal]

\* PixRgba<P>: the RGBA hub pixel type with the channel, alpha and gamma.
PixRgba(P) == Format(4, "Rgb", P.alpha, P.gamma, P.depth)

\* ColorModel::into_rgba of the source model.
into_rgba(S, p) ==
  IF S.model = "Gray"
    THEN <<one(S, p), one(S, p), one(S, p), alpha(S, p)>>
    ELSE <<one(S, p), two(S, p), three(S, p), alpha(S, p)>>

\* ColorModel::from_rgba of the Rgb model: the first D.arity channels.
from_rgba(D, rgba) == from_channels(D, rgba)

\* convert_alpha_gamma running over every channel, alpha included.
convert_alpha_gamma_all(D, S, channels, al) ==
  [i \in 1..Len(channels) |->
     LET c0 == to_linear(S.gamma, channels[i])
         c1 == IF S.alpha # D.alpha
                 THEN AlphaEncode(D.alpha, AlphaDecode(S.alpha, c0, al), al)
                 ELSE c0
     IN  from_linear(D.gamma, c1)]

\* convert_alpha_gamma changing the alpha mode before the gamma decoding.
convert_alpha_gamma_encode_first(D, S, channels, al) ==
  [i \in 1..Len(channels) |->
     IF (i - 1) \in LINEAR(D.model)
       THEN LET c0 == IF S.alpha # D.alpha
                        THEN AlphaEncode(D.alpha,
                               AlphaDecode(S.alpha, channels[i], al), al)
                        ELSE channels[i]
            IN  from_linear(D.gamma, to_linear(S.gamma, c0))
       ELSE channels[i]]

\* convert_alpha_gamma: the pass over the LINEAR channels of a D pixel.
convert_alpha_gamma(D, S, channels, al) ==
  [i \in 1..Len(channels) |->
     IF (i - 1) \in LINEAR(D.model)
       THEN LET c0 == to_linear(S.gamma, channels[i])
                c1 == IF S.alpha # D.alpha
                        THEN AlphaEncode(D.alpha,
                                         AlphaDecode(S.alpha, c0, al), al)
                        ELSE c0
            IN  from_linear(D.gamma, c1)
       ELSE channels[i]]

\* convert_same_model handing the first channel to the pass as alpha.
convert_same_model_first_as_alpha(D, S, p) ==
  LET d == from_bit_depth(D, S, p) IN
  IF d.fatal # NoFatal THEN d
  ELSE IF S.alpha # D.alpha \/ S.gamma # D.gamma
    THEN [val |-> convert_alpha_gamma(D, S, d.val, one(D, d.val)),
          fatal |-> NoFatal]
    ELSE d

convert_same_model(D, S, p) ==
  LET d == from_bit_depth(D, S, p) IN
  IF d.fatal # NoFatal THEN d
  ELSE IF S.alpha # D.alpha \/ S.gamma # D.gamma
    THEN [val |-> convert_alpha_gamma(D, S, d.val, alpha(D, d.val)),
          fatal |-> NoFatal]
    ELSE d

\* convert_thru_rgba keeping the hub pixel in the source channel type.
convert_thru_rgba_source_hub(D, S, p) ==
  LET rgba == convert_same_model(PixRgba(S), PixRgba(S), into_rgba(S, p)) IN
  IF rgba.fatal # NoFatal THEN rgba ELSE from_rgba(D, rgba.val)

convert_thru_rgba(D, S, p) ==
  LET rgba == convert_same_model(PixRgba(D), PixRgba(S), into_rgba(S, p)) IN
  IF rgba.fatal # NoFatal THEN rgba ELSE from_rgba(D, rgba.val)

\* convert taking the same-model path whatever the color models are.
convert_same_model_always(D, S, p) == convert_same_model(D, S, p)

\* Pixel::convert: the same-model path, or the path thru the RGBA hub.
convert(D, S, p) ==
  IF S.model = D.model
    THEN convert_same_model(D, S, p)
    ELSE convert_thru_rgba(D, S, p)

\* composite_channels without the composite of the alpha channel.
composite_channels_color_only(f, d, s, o) ==
  LET da1 == ChanSub(f.depth, ChanMAX(f.depth), alpha(f, d))
      sa1 == ChanSub(f.depth, ChanMAX(f.depth), alpha(f, s))
      d1 == [i \in 1..Len(d) |->
               IF (i - 1) \in LINEAR(f.model)
                 THEN composite(o, d[i], da1, s[i], sa1)
                 ELSE d[i]]
      am == alpha_mut(f, d1)
  IN  [px |-> d1, fatal |-> am.fatal]

\* composite_channels compositing alpha first and taking da1 for the color
\* channels from the alpha it has just written.
composite_channels_alpha_first(f, d, s, o) ==
  LET da1 == ChanSub(f.depth, ChanMAX(f.depth), alpha(f, d))
      sa1 == ChanSub(f.depth, ChanMAX(f.depth), alpha(f, s))
      am == alpha_mut(f, d)
      d1 == IF am.fatal # NoFatal THEN d
            ELSE [d EXCEPT ![am.idx] =
                    composite(o, d[am.idx], da1, alpha(f, s), sa1)]
      da2 == ChanSub(f.depth, ChanMAX(f.depth), alpha(f, d1))
  IN  [px |-> [i \in 1..Len(d1) |->
                 IF (i - 1) \in LINEAR(f.model)
                   THEN composite(o, d1[i], da2, s[i], sa1)
                   ELSE d1[i]],
       fatal |-> am.fatal]

\* composite_channels: the destination pixel after the call, and the fatal
\* error of alpha_mut when the pixel has no alpha channel (the LINEAR
\* channels are already written by then).
composite_channels(f, d, s, o) ==
  LET da1 == ChanSub(f.depth, ChanMAX(f.depth), alpha(f, d))
      sa1 == ChanSub(f.depth, ChanMAX(f.depth), alpha(f, s))
      d1 == [i \in 1..Len(d) |->
               IF (i - 1) \in LINEAR(f.model)
                 THEN composite(o, d[i], da1, s[i], sa1)
                 ELSE d[i]]
      am == alpha_mut(f, d1)
  IN  IF am.fatal # NoFatal
        THEN [px |-> d1, fatal |-> am.fatal]
        ELSE [px |-> [d1 EXCEPT ![am.idx] =
                        composite(o, d1[am.idx], da1, alpha(f, s), sa1)],
              fatal |-> NoFatal]

\* composite_channels_matte taking sa1 from the color instead of the matte.
composite_channels_matte_color_sa1(f, d, al, s, o) ==
  LET da1 == ChanSub(f.depth, ChanMAX(f.depth), alpha(f, d))
      sa1 == ChanSub(f.depth, ChanMAX(f.depth), alpha(f, s))
      d1 == [i \in 1..Len(d) |->
               IF (i - 1) \in LINEAR(f.model)
                 THEN composite(o, d[i], da1, ChanMul(s[i], al), sa1)
                 ELSE d[i]]
      am == alpha_mut(f, d1)
  IN  IF am.fatal # NoFatal
        THEN [px |-> d1, fatal |-> am.fatal]
        ELSE [px |-> [d1 EXCEPT ![am.idx] =
                        composite(o, d1[am.idx], da1,
                                  ChanMul(alpha(f, s), al), sa1)],
              fatal |-> NoFatal]

\* composite_channels_matte: as composite_channels, the source color scaled
\* by the matte alpha al.
composite_channels_matte(f, d, al, s, o) ==
  LET da1 == ChanSub(f.depth, ChanMAX(f.depth), alpha(f, d))
      sa1 == ChanSub(f.depth, ChanMAX(f.depth), al)
      d1 == [i \in 1..Len(d) |->
               IF (i - 1) \in LINEAR(f.model)
                 THEN composite(o, d[i], da1, ChanMul(s[i], al), sa1)
                 ELSE d[i]]
      am == alpha_mut(f, d1)
  IN  IF am.fatal # NoFatal
        THEN [px |-> d1, fatal |-> am.fatal]
        ELSE [px |-> [d1 EXCEPT ![am.idx] =
                        composite(o, d1[am.idx], da1,
                                  ChanMul(alpha(f, s), al), sa1)],
              fatal |-> NoFatal]

\* Matte8: the single-channel coverage pixel of composite_matte.
Matte8 == Format(1, "Matte", "Premultiplied", "Linear", 8)

\* copy_color: every slot of dst becomes clr.
copy_color(d, c) == [i \in 1..Len(d) |-> c]

\* copy_slice: dst.iter_mut().zip(src), so the shorter length.
copy_slice(d, s) ==
  [i \in 1..Len(d) |-> IF i <= Len(s) THEN s[i] ELSE d[i]]

\* composite_color from slot i on; stops at the first fatal error.
RECURSIVE composite_color(_, _, _, _, _)
composite_color(f, d, c, o, i) ==
  IF i > Len(d) THEN [sl |-> d, fatal |-> NoFatal]
  ELSE LET r == composite_channels(f, d[i], c, o) IN
       IF r.fatal # NoFatal
         THEN [sl |-> [d EXCEPT ![i] = r.px], fatal |-> r.fatal]
         ELSE composite_color(f, [d EXCEPT ![i] = r.px], c, o, i + 1)

\* composite_matte from slot i on, pairing dst[i] with the matte pixel m[i].
RECURSIVE composite_matte(_, _, _, _, _, _)
composite_matte(f, d, m, c, o, i) ==
  IF i > Min(Len(d), Len(m)) THEN [sl |-> d, fatal |-> NoFatal]
  ELSE LET r == composite_channels_matte(f, d[i], alpha(Matte8, m[i]), c, o)
       IN
       IF r.fatal # NoFatal
         THEN [sl |-> [d EXCEPT ![i] = r.px], fatal |-> r.fatal]
         ELSE composite_matte(f, [d EXCEPT ![i] = r.px], m, c, o, i + 1)

\* composite_slice from slot i on, pairing dst[i] with src[i].
RECURSIVE composite_slice(_, _, _, _, _)
composite_slice(f, d, s, o, i) ==
  IF i > Min(Len(d), Len(s)) THEN [sl |-> d, fatal |-> NoFatal]
  ELSE LET r == composite_channels(f, d[i], s[i], o) IN
       IF r.fatal # NoFatal
         THEN [sl |-> [d EXCEPT ![i] = r.px], fatal |-> r.fatal]
         ELSE composite_slice(f, [d EXCEPT ![i] = r.px], s, o, i + 1)


----------------------------------------------------------------------------
(* Legacy gray pixel format (gray.rs): Gray<C, A>, a value and an alpha    *)

\* Gray<Ch<depth>, A> with A Opaque or Translucent; an Opaque alpha takes no
\* storage (Gray8 is one channel wide, GrayAlpha8 two).
GrayType(A, b) ==
  Format(IF A = "Opaque" THEN 1 ELSE 2, "Gray", A, "none", b)

\* Alpha::value: the channel an alpha stands for; Opaque is always MAX.
AlphaValue(f, a) == IF f.alpha = "Opaque" THEN ChanMAX(f.depth) ELSE a

\* A::from(channel): Translucent wraps the channel, Opaque has one value.
AlphaFromChan(f, c) == IF f.alpha = "Opaque" THEN ChanMAX(f.depth) ELSE c

Max(x, y) == IF x >= y THEN x ELSE y

\* Gray::with_alpha: the gray <<value, alpha>>.
with_alpha(f, v, al) == <<v, AlphaFromChan(f, al)>>

\* Gray::rgba
rgba(f, g) == <<g[1], g[1], g[1], AlphaValue(f, g[2])>>

\* with_rgba reading alpha one position early.
with_rgba_alpha_slip(f, r) ==
  with_alpha(f, Max(Max(r[1], r[2]), r[3]), r[3])

\* Gray::with_rgba
with_rgba(f, r) ==
  with_alpha(f, Max(Max(r[1], r[2]), r[3]), r[4])
----------------------------------------------------------------------------
(* Inputs                                                                  *)

NoFormat == Format(0, "none", "none", "none", 0)

\* The pixel shapes of the crate's type aliases: Gray, Graya, Rgb, Rgba
\* and Matte.
Shapes ==
  {<<1, "Gray">>, <<2, "Gray">>, <<3, "Rgb">>, <<4, "Rgb">>, <<1, "Matte">>}

Formats ==
  {Format(s[1], s[2], a, g, b) :
     s \in Shapes, a \in {"Straight", "Premultiplied"},
     g \in {"Linear", "Srgb"}, b \in {8, 16}}

\* The formats compositing is defined for (Alpha = Premultiplied), 8-bit.
PremultipliedFormats ==
  {f \in Formats :
     f.alpha = "Premultiplied" /\ f.gamma = "Linear" /\ f.depth = 8}

\* Formats that differ in shape and depth only.
PlainFormats ==
  {f \in Formats : f.alpha = "Straight" /\ f.gamma = "Linear"}

\* 8-bit sample pixels of each arity.
Pixels8(n) ==
  CASE n = 1 -> {<<v>> : v \in {0, 41, 128, 217, 255}}
    [] n = 2 -> {<<v, a>> : v \in {0, 41, 128, 217, 255},
                            a \in {0, 128, 255}}
    [] n = 3 -> {<<32, 64, 128>>, <<0, 0, 0>>, <<255, 255, 255>>,
                 <<16, 32, 64>>, <<220, 67, 145>>}
    [] n = 4 -> {<<32, 64, 128, 128>>, <<16, 32, 64, 128>>, <<0, 0, 0, 0>>,
                 <<255, 128, 0, 255>>, <<1, 15, 16, 16>>, <<32, 0, 0, 0>>,
                 <<15, 15, 15, 15>>, <<64, 128, 255, 255>>}

\* Sample pixels of a format; 16-bit samples are the widened 8-bit ones and
\* one value with a non-zero low byte.
Pixels(f) ==
  IF f.depth = 8 THEN Pixels8(f.arity)
  ELSE {[i \in 1..f.arity |-> ChanFrom(8, 16, p[i])] : p \in Pixels8(f.arity)}
       \cup {[i \in 1..f.arity |-> 13183]}

\* Source colors of the compositing calls: the sample pixels whose channels
\* are 0 or at least 16, which the 8-bit product by MAX reproduces.
Colors(f) == {p \in Pixels(f) : \A i \in 1..Len(p) : p[i] \notin 1..15}

\* The few pixels slices are filled with.
SlicePixels(n) ==
  CASE n = 1 -> {<<41>>, <<255>>}
    [] n = 2 -> {<<41, 128>>, <<0, 0>>, <<255, 255>>}
    [] n = 3 -> {<<32, 64, 128>>, <<16, 32, 64>>}
    [] n = 4 -> {<<32, 64, 128, 128>>, <<0, 0, 0, 0>>, <<64, 128, 255, 255>>}

MattePixels == {<<0>>, <<128>>, <<255>>}

SliceOperators == {"SrcOver", "Src", "DestOut", "Xor"}

Slices(S) == UNION {[1..k -> S] : k \in 0..MaxLen}

\* The alpha/gamma pass is modelled on 8-bit channels.
PassModelled(D, S) ==
  (S.alpha # D.alpha \/ S.gamma # D.gamma) => D.depth = 8

\* Conversions the model follows: same color model, or Gray to Rgb thru the
\* RGBA hub.
Convertible(D, S) ==
  /\ S.model = D.model \/ (S.model = "Gray" /\ D.model = "Rgb")
  /\ PassModelled(D, S)

----------------------------------------------------------------------------
(* State: the last call, its arguments and its outcome                     *)

Init ==
  /\ op = "new"
  /\ fmt = NoFormat
  /\ sfmt = NoFormat
  /\ dst0 = <<>>
  /\ dst = <<>>
  /\ src = <<>>
  /\ clr = <<>>
  /\ pd = "none"
  /\ arg = <<>>
  /\ arg0 = <<>>
  /\ ret = <<>>
  /\ fatal = NoFatal

\* Calls are made one at a time from the state "new": every operation is a
\* function of its arguments alone.
\* A slice call on dst: d before, r.sl after.
SliceCall(name, f, d, s, c, o, r) ==
  /\ op' = name
  /\ fmt' = f
  /\ sfmt' = NoFormat
  /\ dst0' = d
  /\ dst' = r.sl
  /\ src' = s
  /\ clr' = c
  /\ pd' = o
  /\ arg' = <<>>
  /\ arg0' = <<>>
  /\ ret' = <<>>
  /\ fatal' = r.fatal

\* A call that returns a value: D from argument a of type S.
ValueCall(name, D, S, a, a0, r) ==
  /\ op' = name
  /\ fmt' = D
  /\ sfmt' = S
  /\ dst0' = <<>>
  /\ dst' = <<>>
  /\ src' = <<>>
  /\ clr' = <<>>
  /\ pd' = "none"
  /\ arg' = a
  /\ arg0' = a0
  /\ ret' = r.val
  /\ fatal' = r.fatal

CopyColor ==
  /\ op = "new"
  /\ \E f \in PremultipliedFormats :
       \E d \in Slices(SlicePixels(f.arity)), c \in SlicePixels(f.arity) :
         SliceCall("copy_color", f, d, <<>>, c, "none",
                   [sl |-> copy_color(d, c), fatal |-> NoFatal])

CopySlice ==
  /\ op = "new"
  /\ \E f \in PremultipliedFormats :
       \E d \in Slices(SlicePixels(f.arity)), s \in Slices(SlicePixels(f.arity)) :
         SliceCall("copy_slice", f, d, s, <<>>, "none",
                   [sl |-> copy_slice(d, s), fatal |-> NoFatal])

CompositeColor ==
  /\ op = "new"
  /\ \E f \in PremultipliedFormats, o \in SliceOperators :
       \E d \in Slices(SlicePixels(f.arity)), c \in SlicePixels(f.arity) :
         SliceCall("composite_color", f, d, <<>>, c, o,
                   composite_color(f, d, c, o, 1))

CompositeMatte ==
  /\ op = "new"
  /\ \E f \in PremultipliedFormats, o \in SliceOperators :
       \E d \in Slices(SlicePixels(f.arity)), m \in Slices(MattePixels),
          c \in SlicePixels(f.arity) :
         SliceCall("composite_matte", f, d, m, c, o,
                   composite_matte(f, d, m, c, o, 1))

CompositeSlice ==
  /\ op = "new"
  /\ \E f \in PremultipliedFormats, o \in SliceOperators :
       \E d \in Slices(SlicePixels(f.arity)), s \in Slices(SlicePixels(f.arity)) :
         SliceCall("composite_slice", f, d, s, <<>>, o,
                   composite_slice(f, d, s, o, 1))

CompositeChannels ==
  /\ op = "new"
  /\ \E f \in PremultipliedFormats, o \in PorterDuff :
       \E d \in Pixels(f), s \in Colors(f) :
         LET r == composite_channels(f, d, s, o) IN
         SliceCall("composite_channels", f, <<d>>, <<s>>, <<>>, o,
                   [sl |-> <<r.px>>, fatal |-> r.fatal])

CompositeChannelsMatte ==
  /\ op = "new"
  /\ \E f \in PremultipliedFormats, o \in PorterDuff :
       \E d \in Pixels(f), m \in MattePixels, c \in Colors(f) :
         LET r == composite_channels_matte(f, d, alpha(Matte8, m), c, o) IN
         SliceCall("composite_channels_matte", f, <<d>>, <<m>>, c, o,
                   [sl |-> <<r.px>>, fatal |-> r.fatal])

Convert ==
  /\ op = "new"
  /\ \E S \in Formats, D \in Formats :
       /\ Convertible(D, S)
       /\ \E p \in Pixels(S) :
            ValueCall("convert", D, S, p, <<>>, convert(D, S, p))

\* The result of a conversion converted back to the type it came from.
ConvertBack ==
  /\ op = "convert"
  /\ fatal = NoFatal
  /\ Convertible(sfmt, fmt)
  /\ ValueCall("convert_back", sfmt, fmt, ret, arg, convert(sfmt, fmt, ret))

AlphaMut ==
  /\ op = "new"
  /\ \E f \in PlainFormats :
       \E p \in Pixels(f) :
         LET am == alpha_mut(f, p) IN
         ValueCall("alpha_mut", f, f, p, <<>>,
                   [val |-> IF am.fatal = NoFatal THEN <<p[am.idx]>> ELSE <<>>,
                    fatal |-> am.fatal])

FromBitDepth ==
  /\ op = "new"
  /\ \E S \in PlainFormats, D \in PlainFormats :
       \E p \in Pixels(S) :
         ValueCall("from_bit_depth", D, S, p, <<>>, from_bit_depth(D, S, p))

FromChannels ==
  /\ op = "new"
  /\ \E f \in PlainFormats :
       \E c \in Pixels8(4), k \in 0..4 :
         /\ f.depth = 8
         /\ ValueCall("from_channels", f, f, SubSeq(c, 1, k), <<>>,
                      from_channels(f, SubSeq(c, 1, k)))

\* The immutable accessors one() .. four() and alpha().
Accessor ==
  /\ op = "new"
  /\ \E f \in PlainFormats :
       \E p \in Pixels(f) :
         \/ ValueCall("one", f, f, p, <<>>,
                      [val |-> <<one(f, p)>>, fatal |-> NoFatal])
         \/ ValueCall("two", f, f, p, <<>>,
                      [val |-> <<two(f, p)>>, fatal |-> NoFatal])
         \/ ValueCall("three", f, f, p, <<>>,
                      [val |-> <<three(f, p)>>, fatal |-> NoFatal])
         \/ ValueCall("four", f, f, p, <<>>,
                      [val |-> <<four(f, p)>>, fatal |-> NoFatal])
         \/ ValueCall("alpha", f, f, p, <<>>,
                      [val |-> <<alpha(f, p)>>, fatal |-> NoFatal])

\* The legacy gray types and their sample values.
GrayTypes == {GrayType(A, b) : A \in {"Opaque", "Translucent"}, b \in {8, 16}}

GrayValues(f) ==
  IF f.alpha = "Opaque"
    THEN {<<p[1], ChanMAX(f.depth)>> :
            p \in Pixels(Format(1, "Gray", "Straight", "Linear", f.depth))}
    ELSE Pixels(Format(2, "Gray", "Straight", "Linear", f.depth))

\* Format::rgba of a legacy gray value.
GrayRgba ==
  /\ op = "new"
  /\ \E f \in GrayTypes :
       \E g \in GrayValues(f) :
         ValueCall("rgba", f, f, g, <<>>,
                   [val |-> rgba(f, g), fatal |-> NoFatal])

\* Format::with_rgba on four channels.
GrayWithRgba ==
  /\ op = "new"
  /\ \E f \in GrayTypes :
       \E r \in Pixels(Format(4, "Rgb", "Straight", "Linear", f.depth)) :
         ValueCall("with_rgba", f, f, r, <<>>,
                   [val |-> with_rgba(f, r), fatal |-> NoFatal])

\* Format::with_rgba on the channels rgba() returned.
GrayWithRgbaBack ==
  /\ op = "rgba"
  /\ ValueCall("with_rgba_back", fmt, fmt, ret, arg,
               [val |-> with_rgba(fmt, ret), fatal |-> NoFatal])

\* The call is over; its arguments and results are dropped.
Return ==
  /\ op # "new"
  /\ op' = "new"
  /\ fmt' = NoFormat
  /\ sfmt' = NoFormat
  /\ dst0' = <<>>
  /\ dst' = <<>>
  /\ src' = <<>>
  /\ clr' = <<>>
  /\ pd' = "none"
  /\ arg' = <<>>
  /\ arg0' = <<>>
  /\ ret' = <<>>
  /\ fatal' = NoFatal

Next ==
  \/ CopyColor
  \/ CopySlice
  \/ CompositeColor
  \/ CompositeMatte
  \/ CompositeSlice
  \/ CompositeChannels
  \/ CompositeChannelsMatte
  \/ Convert
  \/ ConvertBack
  \/ AlphaMut
  \/ FromBitDepth
  \/ FromChannels
  \/ Accessor
  \/ GrayRgba
  \/ GrayWithRgba
  \/ GrayWithRgbaBack
  \/ Return

Spec == Init /\ [][Next]_vars

----------------------------------------------------------------------------
(* Properties                                                              *)

Abs(x) == IF x < 0 THEN -x ELSE x

\* Channels of pixel p (of format f) that are its LINEAR channels.
LinearIdx(f, p) == {i \in 1..Len(p) : (i - 1) \in LINEAR(f.model)}

\* C1: compositing a constant color through a full-coverage matte (matte
\* alpha = MAX) leaves the destination as composite_channels of that color
\* does, for every destination, color (translucent ones too) and operator.
C1_FullMatteEqualsDirect ==
  (op = "composite_channels_matte" /\ alpha(Matte8, src[1]) = ChanMAX(8))
    => LET direct == composite_channels(fmt, dst0[1], clr, pd) IN
       dst[1] = direct.px /\ fatal = direct.fatal

\* The calls C2 is about: a pixel composited through a matte alpha of 0,
\* a slice composited through matte pixels that are all 0.
ZeroMatte ==
  \/ op = "composite_channels_matte" /\ alpha(Matte8, src[1]) = 0
  \/ /\ op = "composite_matte"
     /\ Len(src) > 0
     /\ \A i \in 1..Len(src) : alpha(Matte8, src[i]) = 0

OverOpaqueOntoTransparent ==
  /\ op = "composite_channels"
  /\ pd = "SrcOver"
  /\ alpha(fmt, src[1]) = ChanMAX(fmt.depth)
  /\ alpha(fmt, dst0[1]) = 0

\* C3: with the over operator, an opaque source composited onto a fully
\* transparent destination leaves the destination equal to the source in
\* every color channel and in alpha.
C3_OverOpaqueCopiesSource ==
  OverOpaqueOntoTransparent => dst[1] = src[1] /\ fatal = NoFatal

C3_Witness ==
  /\ OverOpaqueOntoTransparent
  /\ fmt.arity = 4
  /\ dst0[1] # src[1]
  /\ dst[1] = src[1]

\* A pixel whose LINEAR channels are premultiplied: none exceeds alpha.
IsPremultiplied(f, p) == \A i \in LinearIdx(f, p) : p[i] <= alpha(f, p)

C5_ConvertToSelfIsIdentity ==
  (op = "convert" /\ sfmt = fmt) => ret = arg /\ fatal = NoFatal

C5_Witness ==
  /\ op = "convert"
  /\ sfmt = fmt
  /\ fmt.arity = 4
  /\ fmt.gamma = "Srgb"
  /\ fmt.alpha = "Premultiplied"
  /\ ret = <<32, 64, 128, 128>>

\* C6: only alpha_mut on a pixel without alpha channel and from_bit_depth
\* between different color models end in a fatal error; every other
\* operation completes for all inputs.
C6_OnlyTwoFatalConditions ==
  /\ op = "alpha_mut"
       => (fatal # NoFatal <=> ~(ALPHA(fmt.model) < fmt.arity))
  /\ op = "from_bit_depth"
       => (fatal # NoFatal <=> fmt.model # sfmt.model)
  /\ op \notin {"alpha_mut", "from_bit_depth"} => fatal = NoFatal

\* C7: copy_slice, composite_slice and composite_matte process exactly the
\* first min(len(dst), len(src)) positions, pairing dst[i] with src[i],
\* leave the rest of dst unchanged and do not fail; copy_color and
\* composite_color apply the one color to every slot of dst.
C7_SlicesTruncateToShorter ==
  LET n == Min(Len(dst0), Len(src))
      pair(i) ==
        CASE op = "copy_slice" -> src[i]
          [] op = "composite_slice" ->
               composite_channels(fmt, dst0[i], src[i], pd).px
          [] op = "composite_matte" ->
               composite_channels_matte(fmt, dst0[i], alpha(Matte8, src[i]),
                                        clr, pd).px
      each(i) ==
        CASE op = "copy_color" -> clr
          [] op = "composite_color" ->
               composite_channels(fmt, dst0[i], clr, pd).px
  IN
  /\ op \in {"copy_slice", "composite_slice", "composite_matte"}
       => /\ fatal = NoFatal
          /\ Len(dst) = Len(dst0)
          /\ \A i \in 1..Len(dst0) :
               dst[i] = IF i <= n THEN pair(i) ELSE dst0[i]
  /\ op \in {"copy_color", "composite_color"}
       => /\ fatal = NoFatal
          /\ Len(dst) = Len(dst0)
          /\ \A i \in 1..Len(dst0) : dst[i] = each(i)

\* The call C8 is about: straight linear to premultiplied linear, same
\* model, arity and channel type.
StraightToPremultiplied ==
  /\ op = "convert"
  /\ sfmt.alpha = "Straight"
  /\ sfmt.gamma = "Linear"
  /\ fmt = [sfmt EXCEPT !.alpha = "Premultiplied"]

\* C8: converting a straight-alpha linear pixel to the premultiplied pixel
\* of the same model and channel type multiplies every color channel by the
\* alpha of the pixel and leaves alpha unchanged; 8-bit straight
\* (0x20, 0x40, 0x80, alpha 0x80) becomes (0x10, 0x20, 0x40, 0x80).
C8_StraightToPremultipliedScales ==
  StraightToPremultiplied =>
    /\ fatal = NoFatal
    /\ Len(ret) = Len(arg)
    /\ \A i \in 1..Len(arg) :
         ret[i] = IF i \in LinearIdx(sfmt, arg)
                    THEN ChanMul(arg[i], alpha(sfmt, arg))
                    ELSE arg[i]
    /\ alpha(fmt, ret) = alpha(sfmt, arg)
    /\ (sfmt.depth = 8 /\ arg = <<32, 64, 128, 128>>)
         => ret = <<16, 32, 64, 128>>

C8_Witness ==
  /\ StraightToPremultiplied
  /\ arg = <<32, 64, 128, 128>>
  /\ ret = <<16, 32, 64, 128>>

\* The call C9 is about: a straight pixel converted to the premultiplied
\* type of the same model, arity, channel type and gamma, and back.
StraightRoundTrip ==
  /\ op = "convert_back"
  /\ fmt.alpha = "Straight"
  /\ sfmt = [fmt EXCEPT !.alpha = "Premultiplied"]

WithinOne(f, p, q) ==
  \A i \in LinearIdx(f, p) : Abs(p[i] - q[i]) <= 1

\* C9 as stated: straight -> premultiplied -> straight leaves alpha
\* unchanged and recovers every color channel within one unit.
C9_RoundTripWithinOne ==
  StraightRoundTrip =>
    /\ alpha(fmt, ret) = alpha(fmt, arg0)
    /\ WithinOne(fmt, ret, arg0)

\* C9 amended: straight -> premultiplied -> straight leaves alpha
\* unchanged, and recovers every color channel within one unit when the
\* gamma mode is linear and the alpha of the pixel is MAX.
C9_RoundTripWithinOneOpaque ==
  StraightRoundTrip =>
    /\ fatal = NoFatal
    /\ alpha(fmt, ret) = alpha(fmt, arg0)
    /\ (fmt.gamma = "Linear" /\ alpha(fmt, arg0) = ChanMAX(fmt.depth))
         => WithinOne(fmt, ret, arg0)

C9_Witness ==
  /\ StraightRoundTrip
  /\ fmt.gamma = "Linear"
  /\ fmt.arity = 4
  /\ alpha(fmt, arg0) = ChanMAX(fmt.depth)
  /\ arg0 = <<64, 128, 255, 255>>
  /\ WithinOne(fmt, ret, arg0)

\* The call C10 is about: a gray pixel converted to an Rgb pixel.
GrayToRgb ==
  /\ op = "convert"
  /\ sfmt.model = "Gray"
  /\ fmt.model = "Rgb"

\* C10: gray to RGB goes thru the RGBA hub and yields three equal
\* channels; when the alpha/gamma pass has nothing to change they are the
\* gray value converted to the destination precision.  8-bit gray 0xD9
\* gives RGB (0xD9, 0xD9, 0xD9) and 8-bit gray 0x29 gives 16-bit RGB
\* (0x2929, 0x2929, 0x2929).
C10_GrayToRgbReplicates ==
  GrayToRgb =>
    /\ fatal = NoFatal
    /\ Len(ret) = fmt.arity
    /\ ret[1] = ret[2] /\ ret[2] = ret[3]
    /\ ret = from_rgba(fmt,
               convert_same_model(PixRgba(fmt), PixRgba(sfmt),
                 <<arg[1], arg[1], arg[1], alpha(sfmt, arg)>>).val).val
    /\ (sfmt.alpha = fmt.alpha /\ sfmt.gamma = fmt.gamma)
         => ret[1] = ChanFrom(sfmt.depth, fmt.depth, arg[1])
    /\ (sfmt.alpha = fmt.alpha /\ sfmt.gamma = fmt.gamma
          /\ sfmt.depth = 8 /\ fmt.depth = 8 /\ fmt.arity = 3
          /\ arg[1] = 217)
         => ret = <<217, 217, 217>>
    /\ (sfmt.alpha = fmt.alpha /\ sfmt.gamma = fmt.gamma
          /\ sfmt.depth = 8 /\ fmt.depth = 16 /\ fmt.arity = 3
          /\ arg[1] = 41)
         => ret = <<10537, 10537, 10537>>

C10_Witness ==
  /\ GrayToRgb
  /\ sfmt = Format(1, "Gray", "Straight", "Srgb", 8)
  /\ fmt = Format(3, "Rgb", "Straight", "Srgb", 16)
  /\ arg = <<41>>
  /\ ret = <<10537, 10537, 10537>>


\* The channel index an immutable accessor reads.
AccessorIndex ==
  CASE op = "one" -> 0
    [] op = "two" -> 1
    [] op = "three" -> 2
    [] op = "four" -> 3
    [] op = "alpha" -> ALPHA(fmt.model)

\* C11: the immutable accessors never fault: alpha() returns MAX when the
\* alpha index of the model is not inside the channel array of the pixel,
\* one() .. four() return MAX when their index is at or beyond the arity,
\* and otherwise each returns the stored channel at its index.
C11_AccessorsNeverFault ==
  op \in {"one", "two", "three", "four", "alpha"} =>
    /\ fatal = NoFatal
    /\ ret = << IF AccessorIndex < fmt.arity
                  THEN arg[AccessorIndex + 1]
                  ELSE ChanMAX(fmt.depth) >>

C11_Witness ==
  /\ op = "alpha"
  /\ fmt.arity = 3
  /\ fmt.depth = 16
  /\ arg = <<8224, 16448, 32896>>
  /\ ret = <<65535>>

\* C12: for every value g of the legacy Gray type, opaque or translucent,
\* rgba() is [value, value, value, alpha] and rebuilding g from it is the
\* identity: Gray::with_rgba(g.rgba()) = g.
C12_GrayRgbaRoundTrip ==
  op = "with_rgba_back" =>
    /\ fatal = NoFatal
    /\ arg = <<arg0[1], arg0[1], arg0[1],
               IF fmt.alpha = "Opaque" THEN ChanMAX(fmt.depth) ELSE arg0[2]>>
    /\ ret = arg0

C12_Witness ==
  /\ op = "with_rgba_back"
  /\ fmt.alpha = "Translucent"
  /\ arg0 = <<41, 128>>
  /\ arg = <<41, 41, 41, 128>>
  /\ ret = <<41, 128>>

\* C13: composite_channels takes da1 = MAX - dst.alpha and sa1 = MAX -
\* src.alpha once, from the alphas before the call, sets every channel i of
\* the LINEAR range to op(dst[i], da1, src[i], sa1) and afterwards sets
\* dst.alpha to op(dst.alpha, da1, src.alpha, sa1) with the same da1 and
\* sa1; no other channel changes.  The alpha step goes thru alpha_mut, so
\* it is the fatal error of alpha_mut on a pixel without alpha channel.
C13_CompositeChannelsOrder ==
  op = "composite_channels" =>
    LET d == dst0[1]
        s == src[1]
        MAX == ChanMAX(fmt.depth)
        da1 == MAX - alpha(fmt, d)
        sa1 == MAX - alpha(fmt, s)
        hasAlpha == ALPHA(fmt.model) < fmt.arity
    IN  /\ Len(dst) = 1
        /\ Len(dst[1]) = Len(d)
        /\ \A i \in 1..Len(d) :
             dst[1][i] =
               IF (i - 1) \in LINEAR(fmt.model)
                 THEN composite(pd, d[i], da1, s[i], sa1)
               ELSE IF i - 1 = ALPHA(fmt.model)
                 THEN composite(pd, d[i], da1, alpha(fmt, s), sa1)
               ELSE d[i]
        /\ fatal = IF hasAlpha THEN NoFatal ELSE NoAlphaChannel

C13_Witness ==
  /\ op = "composite_channels"
  /\ pd = "Xor"
  /\ fmt.arity = 4
  /\ dst0 = << <<32, 64, 128, 128>> >>
  /\ src = << <<16, 32, 64, 128>> >>
  /\ dst[1] # dst0[1]
  /\ fatal = NoFatal

\* The call C14 is about: a conversion between pixel types of one model.
SameModelConvert ==
  /\ op = "convert"
  /\ sfmt.model = fmt.model

\* C14: in a same-model conversion the alpha channel of the result is the
\* precision-converted source alpha, and when the alpha mode or the gamma
\* mode differs every channel c of the LINEAR range of the destination
\* becomes D.from_linear(x), with x = D.encode(S.decode(S.to_linear(c), a), a)
\* if the alpha modes differ and x = S.to_linear(c) otherwise, a being the
\* alpha of the destination-shaped pixel after precision conversion (MAX
\* without alpha channel); when neither mode differs the result is the
\* precision-converted pixel.
C14_SameModelPass ==
  SameModelConvert =>
    LET MAXS == ChanMAX(sfmt.depth)
        d == [i \in 1..fmt.arity |->
                ChanFrom(sfmt.depth, fmt.depth,
                         IF i <= Len(arg) THEN arg[i] ELSE MAXS)]
        hasAlpha == ALPHA(fmt.model) < fmt.arity
        a == IF hasAlpha THEN d[ALPHA(fmt.model) + 1] ELSE ChanMAX(fmt.depth)
        differ == sfmt.alpha # fmt.alpha \/ sfmt.gamma # fmt.gamma
        x(c) == IF sfmt.alpha # fmt.alpha
                  THEN AlphaEncode(fmt.alpha,
                         AlphaDecode(sfmt.alpha, to_linear(sfmt.gamma, c), a),
                         a)
                  ELSE to_linear(sfmt.gamma, c)
    IN  /\ fatal = NoFatal
        /\ Len(ret) = fmt.arity
        /\ \A i \in 1..fmt.arity :
             ret[i] = IF differ /\ (i - 1) \in LINEAR(fmt.model)
                        THEN from_linear(fmt.gamma, x(d[i]))
                        ELSE d[i]
        /\ hasAlpha =>
             ret[ALPHA(fmt.model) + 1] =
               ChanFrom(sfmt.depth, fmt.depth, alpha(sfmt, arg))

C14_Witness ==
  /\ SameModelConvert
  /\ sfmt = Format(4, "Rgb", "Straight", "Srgb", 8)
  /\ fmt = Format(4, "Rgb", "Premultiplied", "Srgb", 8)
  /\ arg = <<32, 64, 128, 128>>
  /\ ret = <<22, 42, 92, 128>>

\* C15: from_bit_depth ends in the fatal error "Invalid pixel conversion"
\* exactly when the color models of source and destination differ, and
\* convert never reaches that error: on the same-model path from_bit_depth
\* gets equal models, on the hub path it runs between the two RGBA hub
\* pixel types, both of the Rgb model.
C15_InvalidConversionOnlyDirect ==
  /\ op = "from_bit_depth" =>
       /\ fatal \in {NoFatal, InvalidConversion}
       /\ fatal = InvalidConversion <=> fmt.model # sfmt.model
  /\ op \in {"convert", "convert_back"} =>
       /\ fatal # InvalidConversion
       /\ IF sfmt.model = fmt.model
            THEN from_bit_depth(fmt, sfmt, arg).fatal = NoFatal
            ELSE /\ PixRgba(fmt).model = "Rgb"
                 /\ PixRgba(sfmt).model = "Rgb"
                 /\ from_bit_depth(PixRgba(fmt), PixRgba(sfmt),
                                   into_rgba(sfmt, arg)).fatal = NoFatal

C15_Witness ==
  /\ op = "convert"
  /\ sfmt = Format(2, "Gray", "Straight", "Linear", 16)
  /\ fmt = Format(4, "Rgb", "Premultiplied", "Linear", 8)
  /\ fatal = NoFatal
  /\ Len(ret) = 4
====
